---- MODULE Spec2Model ----
(***************************************************************************)
(* Model of the delete jobs of aind_data_upload_utils:                     *)
(*   DeleteStagingFolderJob  (delete_staging_folder_job.py)                *)
(*   DeleteFoldersJob        (delete_folders_job.py)                       *)
(*   DeleteSourceFoldersJob  (delete_source_folders_job.py)                *)
(*                                                                         *)
(* A path string is modelled by the sequence of its "/"-separated          *)
(* components, i.e. by str.split("/"): "/a/b" is <<"", "a", "b">>, "a//b/" *)
(* is <<"a", "", "b", "">>, "/" is <<"", "">> and "" is <<"">>.  The       *)
(* representation is one-to-one with strings, so normalisation, pathlib    *)
(* parsing and the regular expressions are computed, not assumed.          *)
(* A filesystem node is a sequence of names below "/" (no empty names).    *)
(***************************************************************************)
EXTENDS Integers, Sequences, FiniteSets, TLC

VARIABLES
    job,            \* which job class runs: "staging", "folders", "source"
    settings,       \* the JobSettings of the run (never modified)
    s3_response,    \* what list_objects_v2 answers (never modified)
    fs,             \* the set of filesystem nodes that exist
    fs0,            \* history: the nodes that existed when the run began
    pc,             \* position of run_job
    folders_to_remove,  \* run_job's list of top-level folders (raw strings)
    folder_idx,     \* index of the folder the for-loop of run_job is on
    parts,          \* the partitions of the dask bag (sequence of lists)
    wpos,           \* per partition: dir_counter of the next directory
    wfail,          \* per partition: has the task raised
    metadata_files_in_both_places,  \* return value of _s3_check
    raised,         \* the exception that ended the run ("" if none)
    trace           \* history: guard passes, filesystem calls, log records

vars == <<job, settings, s3_response, fs, fs0, pc, folders_to_remove, folder_idx,
          parts, wpos, wfail, metadata_files_in_both_places, raised, trace>>

\* Python's None, and a value held by an Optional field that is not a path
\* string (a path string is never the empty sequence)
None == <<>>
Some(x) == <<x>>

----------------------------------------------------------------------------
(* Strings and paths                                                       *)

Last(s) == s[Len(s)]
Front(s) == SubSeq(s, 1, Len(s) - 1)

\* str.startswith("/")
StartsWithSlash(s) == Len(s) >= 2 /\ s[1] = ""

\* os.path.isabs
isabs(s) == StartsWithSlash(s)

\* the initial_slashes of posixpath.normpath: 0, 1 or 2 ("//" but not "///")
InitialSlashes(s) ==
    IF ~StartsWithSlash(s) THEN 0
    ELSE IF Len(s) >= 3 /\ s[2] = "" /\ ~(Len(s) >= 4 /\ s[3] = "") THEN 2
    ELSE 1

\* "/" * n + path, on split sequences
RECURSIVE PrependSlashes(_, _)
PrependSlashes(n, s) == IF n = 0 THEN s ELSE PrependSlashes(n - 1, <<"">> \o s)

\* "/".join(comps)
JoinComps(comps) == IF comps = <<>> THEN <<"">> ELSE comps

\* the component loop of posixpath.normpath
RECURSIVE NormComps(_, _, _)
NormComps(comps, new_comps, initial_slashes) ==
    IF comps = <<>> THEN new_comps
    ELSE LET comp == Head(comps)
             rest == Tail(comps)
         IN IF comp \in {"", "."}
            THEN NormComps(rest, new_comps, initial_slashes)
            ELSE IF \/ comp # ".."
                    \/ (initial_slashes = 0 /\ new_comps = <<>>)
                    \/ (new_comps # <<>> /\ Last(new_comps) = "..")
            THEN NormComps(rest, Append(new_comps, comp), initial_slashes)
            ELSE IF new_comps # <<>>
            THEN NormComps(rest, Front(new_comps), initial_slashes)
            ELSE NormComps(rest, new_comps, initial_slashes)

\* os.path.normpath
normpath(s) ==
    IF s = <<"">> THEN <<".">>
    ELSE LET n == InitialSlashes(s)
             path == PrependSlashes(n, JoinComps(NormComps(s, <<>>, n)))
         IN IF path = <<"">> THEN <<".">> ELSE path

\* Is the string made of these components non-empty ("".join != "")
NonEmptyStr(s) == Len(s) >= 2 \/ (Len(s) = 1 /\ s[1] # "")

\* does the string match .+/.+ from its component k on (k <= Len(s))
MatchesAnySlashAny(s, k) ==
    \E i \in k..(Len(s) - 1) :
        /\ NonEmptyStr(SubSeq(s, k, i))
        /\ NonEmptyStr(SubSeq(s, i + 1, Len(s)))

\* re.match(r"^/allen/aind/stage/svc_aind_airflow/(?:prod|dev)/.+", s)
MatchesStagePattern(s) ==
    /\ Len(s) >= 7
    /\ SubSeq(s, 1, 5) = <<"", "allen", "aind", "stage", "svc_aind_airflow">>
    /\ s[6] \in {"prod", "dev"}
    /\ NonEmptyStr(SubSeq(s, 7, Len(s)))

\* re.match(r"^/allen/aind/scratch/.+/.+", s)
MatchesScratchPattern(s) ==
    /\ Len(s) >= 5
    /\ SubSeq(s, 1, 4) = <<"", "allen", "aind", "scratch">>
    /\ MatchesAnySlashAny(s, 5)

\* re.match(r"^/{1,2}allen/aind/(?:stage|scratch)/.+/.+", s)
MatchesSourcePattern(s) ==
    \E off \in {0, 1} :
        /\ Len(s) >= 5 + off
        /\ \A i \in 1..(1 + off) : s[i] = ""
        /\ s[2 + off] = "allen"
        /\ s[3 + off] = "aind"
        /\ s[4 + off] \in {"stage", "scratch"}
        /\ MatchesAnySlashAny(s, 5 + off)

\* re.match(self.job_settings.pattern_to_match, directory), per job class
pattern_to_match(j, s) ==
    CASE j = "staging" -> MatchesStagePattern(s)
      [] j = "folders" -> MatchesStagePattern(s) \/ MatchesScratchPattern(s)
      [] j = "source"  -> MatchesSourcePattern(s)

\* Path(s).as_posix(): pathlib drops empty and "." components and a
\* trailing slash, keeps "..", keeps exactly two leading slashes
as_posix(s) ==
    LET n == InitialSlashes(s)
        comps == SelectSeq(s, LAMBDA c : c \notin {"", "."})
    IN IF n = 0 THEN (IF comps = <<>> THEN <<".">> ELSE comps)
       ELSE PrependSlashes(n, JoinComps(comps))

\* str.rstrip("/")
RECURSIVE rstrip(_)
rstrip(s) == IF Len(s) >= 2 /\ Last(s) = "" THEN rstrip(Front(s)) ELSE s

\* (Path(s) / name).as_posix()
JoinPath(s, name) ==
    IF as_posix(s) = <<".">> THEN <<name>>
    ELSE IF Last(as_posix(s)) = "" THEN Front(as_posix(s)) \o <<name>>
    ELSE as_posix(s) \o <<name>>

----------------------------------------------------------------------------
(* The filesystem                                                          *)

\* The directory the scratch modality data lives under, the staging
\* directory of one upload job, and a directory outside every pattern.
S == <<"allen", "aind", "scratch", "rig">>
T == <<"allen", "aind", "stage", "svc_aind_airflow", "prod", "j1">>
O == <<"etc", "o">>
\* the parent of the staging directories of both environments
P == <<"allen", "aind", "stage", "svc_aind_airflow">>

FileNames == {"f.txt", "a.json", "b.json", "notes.txt"}
LinkNames == {"l"}

\* every node the model's disk can hold
Universe ==
    {S, S \o <<"ec">>, S \o <<"ec", "a">>, S \o <<"ec", "a", "x">>,
     S \o <<"ec", "a", "x", "p">>, S \o <<"ec", "a", "y">>,
     S \o <<"ec", "a", "l">>, S \o <<"ec", "b">>, S \o <<"ec", "b", "x">>,
     S \o <<"ec", "f.txt">>,
     S \o <<"ec", "l">>,
     S \o <<"ec", "md">>, S \o <<"ec", "md", "a.json">>,
     S \o <<"ec", "md", "b.json">>,
     S \o <<"beh">>, S \o <<"beh", "a">>,
     S \o <<"der">>, S \o <<"der", "a">>,
     S \o <<"md">>, S \o <<"md", "a.json">>, S \o <<"md", "b.json">>,
     S \o <<"md", "notes.txt">>,
     T, T \o <<"a">>, T \o <<"a", "x">>, T \o <<"b">>,
     P, P \o <<"prod">>, P \o <<"tmp">>, P \o <<"tmp", "k">>,
     O, O \o <<"k">>}

\* the order in which the operating system lists the names of a directory
NameOrder == <<"a", "b", "x", "y", "p", "k", "l", "f.txt", "md", "a.json",
               "b.json", "notes.txt", "ec", "beh", "der", "j1", "tmp", "prod">>

\* the working directory of the process (relative paths start here)
Cwd == <<"etc">>

Kind(node) ==
    IF node \notin Universe THEN "none"
    ELSE IF Last(node) \in FileNames THEN "file"
    ELSE IF Last(node) \in LinkNames THEN "link"
    ELSE "dir"

\* every symbolic link of the model points at the outside directory
LinkTarget(node) == O

IsPrefix(p, q) == Len(p) <= Len(q) /\ SubSeq(q, 1, Len(p)) = p

\* the node a path string names: the kernel skips empty and "."
\* components and steps up on ".."
RECURSIVE WalkComps(_, _)
WalkComps(comps, node) ==
    IF comps = <<>> THEN node
    ELSE LET c == Head(comps)
         IN IF c \in {"", "."} THEN WalkComps(Tail(comps), node)
            ELSE IF c = ".."
            THEN WalkComps(Tail(comps),
                           IF node = <<>> THEN node ELSE Front(node))
            ELSE WalkComps(Tail(comps), Append(node, c))

FsPath(s) == WalkComps(s, IF StartsWithSlash(s) THEN <<>> ELSE Cwd)

\* the node after following the symbolic links among its parent
\* directories (link targets hold no links)
Real(node) ==
    IF \E k \in 1..(Len(node) - 1) : Kind(SubSeq(node, 1, k)) = "link"
    THEN LET k == CHOOSE k \in 1..(Len(node) - 1) :
                      /\ Kind(SubSeq(node, 1, k)) = "link"
                      /\ \A m \in 1..(k - 1) : Kind(SubSeq(node, 1, m)) # "link"
         IN LinkTarget(SubSeq(node, 1, k)) \o SubSeq(node, k + 1, Len(node))
    ELSE node

\* ... and a link in the last place too
Resolve(node) ==
    IF Kind(Real(node)) = "link" THEN LinkTarget(Real(node)) ELSE Real(node)

\* a node is reachable when the links on its way exist
LinksExist(files, node) ==
    \A k \in 1..Len(node) :
        Kind(SubSeq(node, 1, k)) = "link" => SubSeq(node, 1, k) \in files

\* os.path.exists / Path.exists (follows links)
exists(files, node) == LinksExist(files, node) /\ Resolve(node) \in files

\* Path.is_dir (follows links)
is_dir(files, node) == exists(files, node) /\ Kind(Resolve(node)) = "dir"

\* Path.is_symlink (looks at the last component only)
is_symlink(files, node) ==
    /\ LinksExist(files, node)
    /\ Real(node) \in files
    /\ Kind(Real(node)) = "link"

\* the names os.listdir / Path.iterdir / os.scandir yield, in disk order
listdir(files, node) ==
    SelectSeq(NameOrder, LAMBDA n : Append(Resolve(node), n) \in files)

\* the nodes shutil.rmtree takes away: the directory and all below it
Subtree(files, node) == {q \in files : IsPrefix(Real(node), q)}

----------------------------------------------------------------------------
(* DeleteStagingFolderJob                                                  *)

Event(ev, arg) == [ev |-> ev, arg |-> arg]

\* the check without its first test: a directory is accepted as soon as
\* the pattern matches it, normalized or not
guard_pattern_only(j, directory) ==
    IF ~pattern_to_match(j, directory)
    THEN "is not under parent folder!"
    ELSE ""

\* the check at the head of _remove_directory: "" when the directory may
\* be removed, else the exception raised
guard(j, directory) ==
    IF normpath(directory) # directory \/ ~isabs(directory)
    THEN "needs to be absolute and normalized!"
    ELSE IF ~pattern_to_match(j, directory)
    THEN "is not under parent folder!"
    ELSE ""

\* a removal that empties the directory and leaves the directory itself
rmtree_contents_only(files, directory) ==
    LET node == FsPath(directory)
    IN IF Kind(Real(node)) = "dir"
       THEN [raised |-> "",
             files |-> files \ (Subtree(files, node) \ {Real(node)})]
       ELSE [raised |-> "OSError", files |-> files]

\* shutil.rmtree(directory): refuses a symbolic link, fails on a file
rmtree(files, directory) ==
    LET node == FsPath(directory)
    IN IF Kind(Real(node)) = "dir"
       THEN [raised |-> "", files |-> files \ Subtree(files, node)]
       ELSE [raised |-> "OSError", files |-> files]

\* _remove_directory without its os.path.exists test: rmtree is called
\* on a directory that is not there, and raises
remove_directory_no_exists_test(j, dry_run, files, directory) ==
    IF guard(j, directory) # ""
    THEN [raised |-> guard(j, directory), events |-> <<>>, files |-> files]
    ELSE IF dry_run
    THEN [raised |-> "",
          events |-> <<Event("guard_ok", directory),
                       Event("info: (DRYRUN)", directory)>>,
          files |-> files]
    ELSE [raised |-> IF exists(files, FsPath(directory))
                     THEN rmtree(files, directory).raised ELSE "OSError",
          events |-> <<Event("guard_ok", directory),
                       Event("info: Removing", directory),
                       Event("rmtree", directory)>>,
          files |-> rmtree(files, directory).files]

\* _remove_directory with the os.path.exists test moved to the front
remove_directory_exists_first(j, dry_run, files, directory) ==
    IF ~exists(files, FsPath(directory))
    THEN [raised |-> "",
          events |-> <<Event("warning: does not exist!", directory)>>,
          files |-> files]
    ELSE IF guard(j, directory) # ""
    THEN [raised |-> guard(j, directory), events |-> <<>>, files |-> files]
    ELSE IF dry_run
    THEN [raised |-> "",
          events |-> <<Event("guard_ok", directory),
                       Event("info: (DRYRUN)", directory)>>,
          files |-> files]
    ELSE [raised |-> rmtree(files, directory).raised,
          events |-> <<Event("guard_ok", directory),
                       Event("info: Removing", directory),
                       Event("rmtree", directory)>>,
          files |-> rmtree(files, directory).files]

\* _remove_directory: what one call raises, emits and leaves on disk
remove_directory(j, dry_run, files, directory) ==
    IF guard(j, directory) # ""
    THEN [raised |-> guard(j, directory), events |-> <<>>, files |-> files]
    ELSE IF ~exists(files, FsPath(directory))
    THEN [raised |-> "",
          events |-> <<Event("guard_ok", directory),
                       Event("warning: does not exist!", directory)>>,
          files |-> files]
    ELSE IF dry_run
    THEN [raised |-> "",
          events |-> <<Event("guard_ok", directory),
                       Event("info: (DRYRUN)", directory)>>,
          files |-> files]
    ELSE [raised |-> rmtree(files, directory).raised,
          events |-> <<Event("guard_ok", directory),
                       Event("info: Removing", directory),
                       Event("rmtree", directory)>>,
          files |-> rmtree(files, directory).files]

\* do_scan: the real sub-directories max_depth levels below the entries
\* of start_dir, as posix strings, in listing order
RECURSIVE do_scan(_, _, _, _), scan_entries(_, _, _, _, _)
RECURSIVE scan_entries_follow_links(_, _, _, _, _)
do_scan(files, start_dir, depth, max_depth) ==
    scan_entries(files, start_dir, listdir(files, FsPath(start_dir)),
                 depth, max_depth)

\* the scan without the is_symlink test: a link to a directory is
\* descended into and reported like a directory
scan_entries_follow_links(files, start_dir, names, depth, max_depth) ==
    IF names = <<>> THEN <<>>
    ELSE LET f == JoinPath(start_dir, Head(names))
             found == IF is_dir(files, FsPath(f)) /\ depth < max_depth
                      THEN do_scan(files, f, depth + 1, max_depth)
                      ELSE IF depth = max_depth /\ is_dir(files, FsPath(f))
                      THEN <<f>>
                      ELSE <<>>
         IN found \o scan_entries_follow_links(files, start_dir,
                                               Tail(names), depth, max_depth)

scan_entries(files, start_dir, names, depth, max_depth) ==
    IF names = <<>> THEN <<>>
    ELSE LET f == JoinPath(start_dir, Head(names))
             real_dir == /\ is_dir(files, FsPath(f))
                         /\ ~is_symlink(files, FsPath(f))
             found == IF real_dir /\ depth < max_depth
                      THEN do_scan(files, f, depth + 1, max_depth)
                      ELSE IF depth = max_depth /\ real_dir
                      THEN <<f>>
                      ELSE <<>>
         IN found \o scan_entries(files, start_dir, Tail(names), depth,
                                  max_depth)

\* the scan started one level down: the entries of the folder count as
\* depth 1
get_list_of_sub_directories_from_one(files, folder, max_depth) ==
    IF ~is_dir(files, FsPath(as_posix(folder)))
    THEN [raised |-> "OSError", dirs |-> <<>>]
    ELSE [raised |-> "",
          dirs |-> do_scan(files, as_posix(folder), 1, max_depth)]

\* _get_list_of_sub_directories; iterdir raises when the folder is not a
\* directory on disk
get_list_of_sub_directories(files, folder, max_depth) ==
    IF ~is_dir(files, FsPath(as_posix(folder)))
    THEN [raised |-> "OSError", dirs |-> <<>>]
    ELSE [raised |-> "",
          dirs |-> do_scan(files, as_posix(folder), 0, max_depth)]

Min(a, b) == IF a < b THEN a ELSE b
CeilDiv(a, b) == (a + b - 1) \div b

\* chunks of floor(len / n) items, n of them: the items past the last
\* chunk are in no partition
from_sequence_floor(seq, npartitions) ==
    IF seq = <<>> THEN << <<>> >>
    ELSE LET size == IF Len(seq) < npartitions THEN 1
                     ELSE Len(seq) \div npartitions
         IN [i \in 1..Min(npartitions, Len(seq)) |->
                SubSeq(seq, (i - 1) * size + 1, i * size)]

\* dask_bag.from_sequence(seq, npartitions=n): chunks of
\* ceil(len / n) items; an empty sequence makes one empty partition
from_sequence(seq, npartitions) ==
    IF seq = <<>> THEN << <<>> >>
    ELSE LET size == CeilDiv(Len(seq), npartitions)
         IN [i \in 1..CeilDiv(Len(seq), size) |->
                SubSeq(seq, (i - 1) * size + 1, Min(i * size, Len(seq)))]

----------------------------------------------------------------------------
(* DeleteSourceFoldersJob                                                  *)

\* the prefix of s3_location "s3://example/abc_123", without its slash
Prefix == "abc_123"

\* k.replace(prefix, ""): every "abc_123/" of the key is cut out
RemovePrefix(k) ==
    LET keep == [i \in 1..Len(k) |-> ~(k[i] = Prefix /\ i < Len(k))]
        idx == SelectSeq([i \in 1..Len(k) |-> i], LAMBDA i : keep[i])
    IN [i \in 1..Len(idx) |-> k[idx[i]]]

\* str.strip("/") of a string without leading slash
strip(s) == rstrip(s)

\* str.endswith(".json"), over the names of the model
EndsWithJson(name) == name \in {"a.json", "b.json"}

SeqToSet(q) == {q[i] : i \in 1..Len(q)}

\* the name a string of one component stands for
NameOf(s) == IF Len(s) = 1 THEN s[1] ELSE "<a name with a slash>"

\* s3_files: the keys of the listing, without the prefix
S3Files(response) == {NameOf(RemovePrefix(k)) : k \in response.Contents[1]}

\* s3_folders: the common prefixes, without the prefix and the slashes
S3Folders(response) ==
    {NameOf(strip(RemovePrefix(p))) : p \in response.CommonPrefixes[1]}

\* does _s3_check list the metadata directory
ListsMetadata(cfg) ==
    cfg.metadata_dir # None /\ cfg.modalities_to_delete = None

\* local_md_files
LocalMdFiles(files, cfg) ==
    IF ListsMetadata(cfg)
    THEN {f \in SeqToSet(listdir(files, FsPath(cfg.metadata_dir))) :
             EndsWithJson(f)}
    ELSE {}

\* every local json file taken as confirmed, whatever the listing holds
FilesInBothPlaces_local(s3_files, local_md_files) == local_md_files

\* files_in_both_places
FilesInBothPlaces(s3_files, local_md_files) == s3_files \cap local_md_files

\* local_dirs with the filter applied to the keys as well
LocalDirs_filtered(cfg) ==
    {cfg.modality_sources[i][1] :
        i \in {i \in 1..Len(cfg.modality_sources) :
                  \/ cfg.modalities_to_delete = None
                  \/ cfg.modality_sources[i][1] \in cfg.modalities_to_delete[1]}}
    \cup
    (IF cfg.derivatives_dir # None /\ cfg.modalities_to_delete = None
     THEN {"derivatives"} ELSE {})

\* local_dirs: the keys of modality_sources, and "derivatives" when the
\* directory is configured and no filter is set
LocalDirs(cfg) ==
    {cfg.modality_sources[i][1] : i \in 1..Len(cfg.modality_sources)} \cup
    (IF cfg.derivatives_dir # None /\ cfg.modalities_to_delete = None
     THEN {"derivatives"} ELSE {})

\* dirs_locally_not_in_s3
DirsLocallyNotInS3(s3_folders, local_dirs) ==
    local_dirs \ (s3_folders \cap local_dirs)

\* _s3_check once the listing is known not to be truncated
s3_check_listed(files, response, cfg) ==
    IF response.Contents = None \/ response.CommonPrefixes = None
    THEN [raised |-> "KeyError", events |-> <<>>, result |-> {}]
    ELSE
    LET local_md_files == LocalMdFiles(files, cfg)
        files_in_both_places ==
            FilesInBothPlaces(S3Files(response), local_md_files)
        files_locally_not_in_s3 == local_md_files \ files_in_both_places
        dirs_locally_not_in_s3 ==
            DirsLocallyNotInS3(S3Folders(response), LocalDirs(cfg))
        ev_list == IF ListsMetadata(cfg)
                   THEN <<Event("os.listdir", cfg.metadata_dir)>> ELSE <<>>
        ev_warn == IF files_locally_not_in_s3 # {}
                   THEN <<Event("warning: files not found in S3!",
                                cfg.metadata_dir)>>
                   ELSE <<>>
    IN IF ListsMetadata(cfg) /\ ~is_dir(files, FsPath(cfg.metadata_dir))
       THEN [raised |-> "OSError", events |-> ev_list, result |-> {}]
       ELSE IF dirs_locally_not_in_s3 # {}
       THEN [raised |-> "directories not found in S3!",
             events |-> ev_list \o ev_warn, result |-> {}]
       ELSE [raised |-> "", events |-> ev_list \o ev_warn,
             result |-> files_in_both_places]

\* the check without the IsTruncated test: a first page is read as if it
\* were the whole listing
s3_check_first_page(files, response, cfg) ==
    s3_check_listed(files, response, cfg)

\* _s3_check: what it raises, lists, warns about and returns
s3_check(files, response, cfg) ==
    IF response.IsTruncated
    THEN [raised |-> "Unexpected number of objects", events |-> <<>>,
          result |-> {}]
    ELSE s3_check_listed(files, response, cfg)

\* _get_list_of_modality_directories
RECURSIVE modality_dirs(_, _)
modality_dirs(srcs, modalities_to_delete) ==
    IF srcs = <<>> THEN <<>>
    ELSE (IF \/ modalities_to_delete = None
             \/ Head(srcs)[1] \in modalities_to_delete[1]
          THEN <<Head(srcs)[2]>> ELSE <<>>)
         \o modality_dirs(Tail(srcs), modalities_to_delete)

\* the list built without looking at modalities_to_delete
get_list_of_modality_directories_unfiltered(cfg) ==
    modality_dirs(cfg.modality_sources, None)

get_list_of_modality_directories(cfg) ==
    modality_dirs(cfg.modality_sources, cfg.modalities_to_delete)

\* events of the os.remove calls, one per file of the set
RECURSIVE RemoveEvents(_, _)
RemoveEvents(metadata_dir, names) ==
    IF names = {} THEN <<>>
    ELSE LET n == CHOOSE n \in names : TRUE
         IN <<Event("os.remove", JoinPath(metadata_dir, n))>>
            \o RemoveEvents(metadata_dir, names \ {n})

\* the metadata directory removed the way the modality directories are:
\* whole, with whatever it holds
remove_metadata_directory_rmtree(files, metadata_dir, both) ==
    [raised |-> rmtree(files, metadata_dir).raised,
     events |-> RemoveEvents(metadata_dir, both)
                \o <<Event("os.rmdir", metadata_dir)>>,
     files |-> rmtree(files, metadata_dir).files]

\* _remove_metadata_directory.  The files of the set lie in one directory,
\* which rmtree takes away whole or not at all, so either every os.remove
\* succeeds or the first one raises.
remove_metadata_directory(files, metadata_dir, both) ==
    LET md_node == FsPath(metadata_dir)
        targets == {Resolve(FsPath(JoinPath(metadata_dir, n))) : n \in both}
        gone == {n \in both : ~exists(files, FsPath(JoinPath(metadata_dir, n)))}
        after == files \ targets
    IN IF gone # {}
       THEN [raised |-> "OSError",
             events |-> <<Event("os.remove",
                                JoinPath(metadata_dir,
                                         CHOOSE n \in gone : TRUE))>>,
             files |-> files]
       ELSE IF ~is_dir(after, md_node)
       THEN [raised |-> "OSError",
             events |-> RemoveEvents(metadata_dir, both), files |-> after]
       ELSE IF listdir(after, md_node) # <<>>
       THEN [raised |-> "",
             events |-> RemoveEvents(metadata_dir, both)
                        \o <<Event("warning: extra files or folders",
                                   metadata_dir)>>,
             files |-> after]
       ELSE [raised |-> "",
             events |-> RemoveEvents(metadata_dir, both)
                        \o <<Event("os.rmdir", metadata_dir)>>,
             files |-> after \ {Resolve(md_node)}]

----------------------------------------------------------------------------
(* run_job                                                                 *)

\* largest num_of_dir_levels and n_partitions the runs are started with
MaxLevels == 1
MaxPartitions == 2

\* the absolute path string of a node
Str(node) == <<"">> \o node

NoResponse ==
    [IsTruncated |-> FALSE, Contents |-> None, CommonPrefixes |-> None]

Key(name) == <<Prefix, name>>
CommonPrefix(name) == <<Prefix, name, "">>

Settings(dirs, srcs, md, der, only, dry, levels, n) ==
    [directories |-> dirs, modality_sources |-> srcs, metadata_dir |-> md,
     derivatives_dir |-> der, modalities_to_delete |-> only, dry_run |-> dry,
     num_of_dir_levels |-> levels, n_partitions |-> n]

\* the disks a run may start on: everything, no stray file in the
\* metadata directory, no behavior directory
Disks ==
    <<Universe,
      Universe \ {S \o <<"md", "notes.txt">>},
      Universe \ {q \in Universe : IsPrefix(S \o <<"beh">>, q)}>>

\* the listings the bucket may answer
Responses ==
    {[IsTruncated |-> FALSE, Contents |-> Some({Key(n) : n \in c}),
      CommonPrefixes |-> Some({CommonPrefix(n) : n \in p})] :
        c \in {{"a.json"}, {"a.json", "b.json"}},
        p \in {{"ecephys", "behavior", "derivatives", "original_metadata"},
               {"ecephys", "behavior"}, {"ecephys", "derivatives"},
               {"behavior", "derivatives"}}}
    \cup {[IsTruncated |-> TRUE,
           Contents |-> Some({Key("a.json"), Key("b.json")}),
           CommonPrefixes |-> Some({CommonPrefix("ecephys"),
                                    CommonPrefix("behavior"),
                                    CommonPrefix("derivatives")})],
          [IsTruncated |-> FALSE, Contents |-> None,
           CommonPrefixes |-> Some({CommonPrefix("ecephys")})]}

StartVars ==
    /\ fs0 = fs
    /\ folder_idx = 1
    /\ parts = <<>>
    /\ wpos = <<>>
    /\ wfail = <<>>
    /\ metadata_files_in_both_places = {}
    /\ raised = ""
    /\ trace = <<>>

\* DeleteSourceFoldersJob(job_settings), before run_job
InitSource ==
    /\ job = "source"
    /\ \E srcs \in {<< <<"ecephys", Str(S \o <<"ec">>)>> >>,
                    << <<"ecephys", Str(S \o <<"ec">>)>>,
                       <<"behavior", Str(S \o <<"beh">>)>> >>},
          md \in {None, Str(S \o <<"md">>), Str(S \o <<"ec", "md">>)},
          der \in {None, Str(S \o <<"der">>)},
          only \in {None, Some({"ecephys"}), Some({"derivatives"})},
          dry \in BOOLEAN,
          levels \in 0..MaxLevels,
          n \in 1..MaxPartitions :
            settings = Settings(<<>>, srcs, md, der, only, dry, levels, n)
    /\ s3_response \in Responses
    /\ fs \in {Disks[1], Disks[2]}
    /\ pc = "s3_check"
    /\ folders_to_remove = <<>>
    /\ StartVars

\* DeleteStagingFolderJob(job_settings), before run_job
InitStaging ==
    /\ job = "staging"
    /\ \E dir \in {Str(T), Str(T) \o <<"">>, Str(S \o <<"ec">>),
                   Str(T) \o <<"..", "j1">>, Str(P)},
          dry \in BOOLEAN,
          levels \in 0..MaxLevels,
          n \in 1..MaxPartitions :
            settings = Settings(<<dir>>, <<>>, None, None, None, dry, levels, n)
    /\ s3_response = NoResponse
    /\ fs = Disks[1]
    /\ pc = "scan"
    /\ folders_to_remove = settings.directories
    /\ StartVars

\* DeleteFoldersJob(job_settings), before run_job
InitFolders ==
    /\ job = "folders"
    /\ \E dirs \in {<<Str(T)>>, <<Str(S \o <<"ec">>), Str(S \o <<"beh">>)>>,
                    <<Str(S \o <<"ec">>), Str(O)>>},
          dry \in BOOLEAN,
          levels \in 0..MaxLevels,
          n \in 1..MaxPartitions :
            settings = Settings(dirs, <<>>, None, None, None, dry, levels, n)
    /\ s3_response = NoResponse
    /\ fs \in {Disks[1], Disks[3]}
    /\ pc = "scan"
    /\ folders_to_remove = settings.directories
    /\ StartVars

\* a listing that holds every modality folder and both json files
FullResponse ==
    [IsTruncated |-> FALSE,
     Contents |-> Some({Key("a.json"), Key("b.json")}),
     CommonPrefixes |-> Some({CommonPrefix(n) :
         n \in {"ecephys", "behavior", "derivatives", "original_metadata"}})]

BothSources ==
    << <<"ecephys", Str(S \o <<"ec">>)>>, <<"behavior", Str(S \o <<"beh">>)>> >>

\* what a run over both sources, the derivatives and the metadata
\* directory removes, in the order it removes it at depth 0 in one
\* partition; the first entries are those of DeleteFoldersJob over the
\* two sources
RemovalOrder ==
    <<S \o <<"ec", "a">>, S \o <<"ec", "b">>, S \o <<"ec", "md">>,
      S \o <<"ec">>, S \o <<"beh", "a">>, S \o <<"beh">>, S \o <<"der">>,
      S \o <<"md", "a.json">>, S \o <<"md", "b.json">>>>

FoldersSteps == Len(RemovalOrder) - Len(<<"der", "a.json", "b.json">>)

\* the disk a run leaves when it is stopped after its k-th removal
Interrupted(k) ==
    {q \in Disks[2] : \A i \in 1..k : ~IsPrefix(RemovalOrder[i], q)}

\* a job started again, with the settings of a run that was stopped
\* before its last removal, on the disk that run left
InitInterrupted ==
    /\ \E levels \in 0..MaxLevels, n \in 1..MaxPartitions :
         \/ /\ job = "source"
            /\ settings = Settings(<<>>, BothSources, Str(S \o <<"md">>),
                                   Str(S \o <<"der">>), None, FALSE, levels, n)
            /\ s3_response = FullResponse
            /\ \E k \in 0..Len(RemovalOrder) : fs = Interrupted(k)
            /\ pc = "s3_check"
            /\ folders_to_remove = <<>>
         \/ /\ job = "folders"
            /\ settings = Settings(<<Str(S \o <<"ec">>), Str(S \o <<"beh">>)>>,
                                   <<>>, None, None, None, FALSE, levels, n)
            /\ s3_response = NoResponse
            /\ \E k \in 0..(FoldersSteps - 1) : fs = Interrupted(k)
            /\ pc = "scan"
            /\ folders_to_remove = settings.directories
    /\ StartVars

\* DeleteSourceFoldersJob with two modalities that name one directory
InitAliased ==
    /\ job = "source"
    /\ \E dry \in BOOLEAN, levels \in 0..MaxLevels, n \in 1..MaxPartitions :
         settings = Settings(<<>>, << <<"ecephys", Str(S \o <<"ec">>)>>,
                                      <<"behavior", Str(S \o <<"ec">>)>> >>,
                             None, None, None, dry, levels, n)
    /\ s3_response = FullResponse
    /\ fs = Disks[1]
    /\ pc = "s3_check"
    /\ folders_to_remove = <<>>
    /\ StartVars

\* DeleteSourceFoldersJob with the metadata directory inside its first
\* source and a second source outside the pattern
InitOutside ==
    /\ job = "source"
    /\ \E levels \in 0..MaxLevels, n \in 1..MaxPartitions :
         settings = Settings(<<>>, << <<"ecephys", Str(S \o <<"ec">>)>>,
                                      <<"behavior", Str(O)>> >>,
                             Str(S \o <<"ec", "md">>), Str(S \o <<"der">>),
                             None, FALSE, levels, n)
    /\ s3_response = FullResponse
    /\ fs = Disks[1]
    /\ pc = "s3_check"
    /\ folders_to_remove = <<>>
    /\ StartVars

Init ==
    \/ InitSource
    \/ InitStaging
    \/ InitFolders
    \/ InitInterrupted
    \/ InitAliased
    \/ InitOutside

Abort(exception) ==
    /\ pc' = "aborted"
    /\ raised' = exception

\* DeleteSourceFoldersJob.run_job, the consistency check and the list of
\* folders
S3Check ==
    /\ pc = "s3_check"
    /\ LET r == s3_check(fs, s3_response, settings)
       IN /\ trace' = trace \o r.events
          /\ IF r.raised # ""
             THEN /\ Abort(r.raised)
                  /\ UNCHANGED <<metadata_files_in_both_places,
                                 folders_to_remove>>
             ELSE /\ metadata_files_in_both_places' = r.result
                  /\ folders_to_remove' =
                         get_list_of_modality_directories(settings)
                  /\ pc' = IF get_list_of_modality_directories(settings) = <<>>
                           THEN "derivatives" ELSE "scan"
                  /\ UNCHANGED raised
    /\ UNCHANGED <<job, settings, s3_response, fs0, fs, folder_idx, parts, wpos,
                   wfail>>

\* a run_job that puts every top-level folder through the guard before
\* it scans the first one
Scan_validate_all ==
    /\ pc = "scan"
    /\ LET folder == folders_to_remove[folder_idx]
           r == get_list_of_sub_directories(fs, folder,
                                            settings.num_of_dir_levels)
           bag == from_sequence(r.dirs, settings.n_partitions)
           bad == {i \in DOMAIN folders_to_remove :
                      guard(job, rstrip(as_posix(folders_to_remove[i]))) # ""}
       IN IF folder_idx = 1 /\ bad # {}
          THEN /\ Abort(guard(job, rstrip(as_posix(
                       folders_to_remove[CHOOSE i \in bad : TRUE]))))
               /\ UNCHANGED <<trace, parts, wpos, wfail>>
          ELSE /\ trace' = Append(trace, Event("iterdir", as_posix(folder)))
               /\ IF r.raised # ""
                  THEN /\ Abort(r.raised)
                       /\ UNCHANGED <<parts, wpos, wfail>>
                  ELSE /\ parts' = bag
                       /\ wpos' = [i \in DOMAIN bag |-> 1]
                       /\ wfail' = [i \in DOMAIN bag |-> FALSE]
                       /\ pc' = "prune"
                       /\ UNCHANGED raised
    /\ UNCHANGED <<job, settings, s3_response, fs0, fs, folders_to_remove,
                   folder_idx, metadata_files_in_both_places>>

\* run_job: _get_list_of_sub_directories and the fan-out of
\* _remove_subdirectories
Scan ==
    /\ pc = "scan"
    /\ LET folder == folders_to_remove[folder_idx]
           r == get_list_of_sub_directories(fs, folder,
                                            settings.num_of_dir_levels)
           bag == from_sequence(r.dirs, settings.n_partitions)
       IN /\ trace' = Append(trace, Event("iterdir", as_posix(folder)))
          /\ IF r.raised # ""
             THEN /\ Abort(r.raised)
                  /\ UNCHANGED <<parts, wpos, wfail>>
             ELSE /\ parts' = bag
                  /\ wpos' = [i \in DOMAIN bag |-> 1]
                  /\ wfail' = [i \in DOMAIN bag |-> FALSE]
                  /\ pc' = "prune"
                  /\ UNCHANGED raised
    /\ UNCHANGED <<job, settings, s3_response, fs0, fs, folders_to_remove,
                   folder_idx, metadata_files_in_both_places>>

\* the loop with enumerate left at its default: the counter starts at 0
Task_count_from_zero(w) ==
    /\ pc = "prune"
    /\ ~wfail[w]
    /\ wpos[w] <= Len(parts[w])
    /\ LET directory == parts[w][wpos[w]]
           r == remove_directory(job, settings.dry_run, fs, directory)
       IN /\ trace' = trace
                      \o <<Event("debug: On", <<directory, wpos[w] - 1,
                                                Len(parts[w])>>)>>
                      \o r.events
          /\ fs' = r.files
          /\ IF r.raised # ""
             THEN /\ wfail' = [wfail EXCEPT ![w] = TRUE]
                  /\ raised' = IF raised = "" THEN r.raised ELSE raised
                  /\ UNCHANGED wpos
             ELSE /\ wpos' = [wpos EXCEPT ![w] = wpos[w] + 1]
                  /\ UNCHANGED <<wfail, raised>>
    /\ UNCHANGED <<job, settings, s3_response, fs0, pc, folders_to_remove,
                   folder_idx, parts, metadata_files_in_both_places>>

\* one turn of the loop of _dask_task_to_process_directory_list in the
\* task of partition w
Task(w) ==
    /\ pc = "prune"
    /\ ~wfail[w]
    /\ wpos[w] <= Len(parts[w])
    /\ LET directory == parts[w][wpos[w]]
           r == remove_directory(job, settings.dry_run, fs, directory)
       IN /\ trace' = trace
                      \o <<Event("debug: On", <<directory, wpos[w],
                                                Len(parts[w])>>)>>
                      \o r.events
          /\ fs' = r.files
          /\ IF r.raised # ""
             THEN /\ wfail' = [wfail EXCEPT ![w] = TRUE]
                  /\ raised' = IF raised = "" THEN r.raised ELSE raised
                  /\ UNCHANGED wpos
             ELSE /\ wpos' = [wpos EXCEPT ![w] = wpos[w] + 1]
                  /\ UNCHANGED <<wfail, raised>>
    /\ UNCHANGED <<job, settings, s3_response, fs0, pc, folders_to_remove,
                   folder_idx, parts, metadata_files_in_both_places>>

TaskDone(w) == ~wfail[w] /\ wpos[w] > Len(parts[w])

\* a compute() that does not wait: it returns while tasks are under way
ComputeReturns_no_wait ==
    /\ pc = "prune"
    /\ pc' = "rmtop"
    /\ UNCHANGED <<job, settings, s3_response, fs0, fs, folders_to_remove,
                   folder_idx, parts, wpos, wfail,
                   metadata_files_in_both_places, raised, trace>>

\* a compute() that keeps the exceptions of its tasks to itself: it
\* returns when every task has ended, raised or not
ComputeReturns_swallow ==
    /\ pc = "prune"
    /\ \A w \in DOMAIN parts : wfail[w] \/ TaskDone(w)
    /\ pc' = "rmtop"
    /\ UNCHANGED <<job, settings, s3_response, fs0, fs, folders_to_remove,
                   folder_idx, parts, wpos, wfail,
                   metadata_files_in_both_places, raised, trace>>

\* mapped_partitions.compute() returns: every task has returned
ComputeReturns ==
    /\ pc = "prune"
    /\ \A w \in DOMAIN parts : TaskDone(w)
    /\ pc' = "rmtop"
    /\ UNCHANGED <<job, settings, s3_response, fs0, fs, folders_to_remove,
                   folder_idx, parts, wpos, wfail,
                   metadata_files_in_both_places, raised, trace>>

\* mapped_partitions.compute() raises: a task has raised, and the tasks
\* that were started have ended (tasks not yet started never start)
ComputeRaises ==
    /\ pc = "prune"
    /\ \E w \in DOMAIN parts : wfail[w]
    /\ \A w \in DOMAIN parts : wfail[w] \/ TaskDone(w) \/ wpos[w] = 1
    /\ pc' = "aborted"
    /\ UNCHANGED <<job, settings, s3_response, fs0, fs, folders_to_remove,
                   folder_idx, parts, wpos, wfail,
                   metadata_files_in_both_places, raised, trace>>

\* a run_job that goes from its last modality directory to the metadata
\* directory
RemoveTop_then_metadata ==
    /\ pc = "rmtop"
    /\ LET folder == folders_to_remove[folder_idx]
           r == remove_directory(job, settings.dry_run, fs,
                                 rstrip(as_posix(folder)))
       IN /\ trace' = trace \o r.events
          /\ fs' = r.files
          /\ IF r.raised # ""
             THEN /\ Abort(r.raised)
                  /\ UNCHANGED folder_idx
             ELSE /\ UNCHANGED raised
                  /\ IF folder_idx < Len(folders_to_remove)
                     THEN /\ folder_idx' = folder_idx + 1
                          /\ pc' = "scan"
                     ELSE /\ UNCHANGED folder_idx
                          /\ pc' = IF job = "source" THEN "metadata"
                                   ELSE "done"
    /\ UNCHANGED <<job, settings, s3_response, fs0, folders_to_remove, parts,
                   wpos, wfail, metadata_files_in_both_places>>

\* run_job: the top-level folder is removed, and the loop goes on
RemoveTop ==
    /\ pc = "rmtop"
    /\ LET folder == folders_to_remove[folder_idx]
           r == remove_directory(job, settings.dry_run, fs,
                                 rstrip(as_posix(folder)))
       IN /\ trace' = trace \o r.events
          /\ fs' = r.files
          /\ IF r.raised # ""
             THEN /\ Abort(r.raised)
                  /\ UNCHANGED folder_idx
             ELSE /\ UNCHANGED raised
                  /\ IF folder_idx < Len(folders_to_remove)
                     THEN /\ folder_idx' = folder_idx + 1
                          /\ pc' = "scan"
                     ELSE /\ UNCHANGED folder_idx
                          /\ pc' = IF job = "source" THEN "derivatives"
                                   ELSE "done"
    /\ UNCHANGED <<job, settings, s3_response, fs0, folders_to_remove, parts,
                   wpos, wfail, metadata_files_in_both_places>>

\* DeleteSourceFoldersJob.run_job: the derivatives directory
RemoveDerivatives ==
    /\ pc = "derivatives"
    /\ LET derivatives_dir == settings.derivatives_dir
           wanted == /\ derivatives_dir # None
                     /\ \/ settings.modalities_to_delete = None
                        \/ "derivatives" \in settings.modalities_to_delete[1]
           r == IF wanted
                THEN remove_directory(job, settings.dry_run, fs,
                                      derivatives_dir)
                ELSE [raised |-> "", events |-> <<>>, files |-> fs]
       IN /\ trace' = trace \o r.events
          /\ fs' = r.files
          /\ IF r.raised # ""
             THEN Abort(r.raised)
             ELSE pc' = "metadata" /\ UNCHANGED raised
    /\ UNCHANGED <<job, settings, s3_response, fs0, folders_to_remove, folder_idx,
                   parts, wpos, wfail, metadata_files_in_both_places>>

\* DeleteSourceFoldersJob.run_job: the metadata directory, last
RemoveMetadata ==
    /\ pc = "metadata"
    /\ LET metadata_dir == settings.metadata_dir
           wanted == /\ metadata_dir # None
                     /\ settings.modalities_to_delete = None
           r == IF wanted
                THEN remove_metadata_directory(fs, metadata_dir,
                                               metadata_files_in_both_places)
                ELSE [raised |-> "", events |-> <<>>, files |-> fs]
       IN /\ trace' = trace \o r.events
          /\ fs' = r.files
          /\ IF r.raised # ""
             THEN Abort(r.raised)
             ELSE pc' = "done" /\ UNCHANGED raised
    /\ UNCHANGED <<job, settings, s3_response, fs0, folders_to_remove, folder_idx,
                   parts, wpos, wfail, metadata_files_in_both_places>>

Next ==
    \/ S3Check
    \/ Scan
    \/ \E w \in DOMAIN parts : Task(w)
    \/ ComputeReturns
    \/ ComputeRaises
    \/ RemoveTop
    \/ RemoveDerivatives
    \/ RemoveMetadata

Spec == Init /\ [][Next]_vars

----------------------------------------------------------------------------
(* _dask_task_to_process_directory_list called on its own, over many       *)
(* strings around the patterns                                             *)

InsertAt(s, i, c) == SubSeq(s, 1, i - 1) \o <<c>> \o SubSeq(s, i, Len(s))
DropAt(s, i) == SubSeq(s, 1, i - 1) \o SubSeq(s, i + 1, Len(s))

\* a string, and the strings one edit away from it
Variants(s) ==
    {s}
    \cup {InsertAt(s, i, c) : i \in 1..(Len(s) + 1), c \in {"", ".", "..", "x"}}
    \cup {DropAt(s, i) : i \in 1..Len(s)}
    \cup {[s EXCEPT ![i] = c] : i \in 1..Len(s), c \in {"..", "x", "dev"}}

GuardInputs ==
    UNION {Variants(s) : s \in {Str(T \o <<"a">>), Str(S \o <<"ec">>),
                                <<"">> \o Str(S \o <<"ec", "a">>), Str(O)}}

InitGuard ==
    /\ job \in {"staging", "folders", "source"}
    /\ \E dry \in BOOLEAN :
           settings = Settings(<<>>, <<>>, None, None, None, dry, 0, 1)
    /\ s3_response = NoResponse
    /\ fs \in {Universe, {}}
    /\ pc = "prune"
    /\ folders_to_remove = <<>>
    /\ \E d \in GuardInputs : parts \in {<< <<d>> >>, << <<Str(T \o <<"b">>), d>> >>,
                                         << <<d, Str(T \o <<"b">>)>> >>}
    /\ fs0 = fs
    /\ folder_idx = 1
    /\ wpos = <<1>>
    /\ wfail = <<FALSE>>
    /\ metadata_files_in_both_places = {}
    /\ raised = ""
    /\ trace = <<>>

NextGuard == \E w \in DOMAIN parts : Task(w)

SpecGuard == InitGuard /\ [][NextGuard]_vars

----------------------------------------------------------------------------
(* _get_list_of_sub_directories called on its own, over many trees         *)

MaxScanLevels == 2

ScanRoot == S \o <<"ec">>

\* the nodes a tree below the scanned folder may hold
ScanNodes ==
    {q \in Universe : IsPrefix(ScanRoot, q) /\ q # ScanRoot
                      /\ ~IsPrefix(ScanRoot \o <<"md">>, q)}

\* every tree below the scanned folder
ScanDisks ==
    {{S, ScanRoot, O, O \o <<"k">>} \cup sub : sub \in
        {t \in SUBSET ScanNodes :
            \A q \in t : Front(q) = ScanRoot \/ Front(q) \in t}}

InitScan ==
    /\ job = "folders"
    /\ \E levels \in 0..MaxScanLevels :
           settings = Settings(<<Str(ScanRoot)>>, <<>>, None, None, None,
                               FALSE, levels, 1)
    /\ s3_response = NoResponse
    /\ fs \in ScanDisks
    /\ pc = "scan"
    /\ folders_to_remove = settings.directories
    /\ StartVars

NextScan == Scan

SpecScan == InitScan /\ [][NextScan]_vars

----------------------------------------------------------------------------
(* Properties                                                              *)

RemovalEvents == {"rmtree", "os.remove", "os.rmdir"}

NoRemoval == \A i \in DOMAIN trace : trace[i].ev \notin RemovalEvents

Happened(ev) == \E i \in DOMAIN trace : trace[i].ev = ev

\* the three conditions of the path-authorization guard
Authorized(j, d) == isabs(d) /\ normpath(d) = d /\ pattern_to_match(j, d)

GuardErrors ==
    {"needs to be absolute and normalized!", "is not under parent folder!"}

\* C1: shutil.rmtree is only ever invoked on an absolute, normalized path
\* that matches the pattern of the job; a directory failing one of the
\* three checks makes the call raise, and rmtree is not invoked on it.
C1_RmtreeOnlyOnAuthorizedPaths ==
    /\ \A i \in DOMAIN trace :
           trace[i].ev = "rmtree" => Authorized(job, trace[i].arg)
    /\ \A i \in DOMAIN trace :
           (trace[i].ev = "debug: On" /\ ~Authorized(job, trace[i].arg[1]))
           => /\ raised \in GuardErrors
              /\ \E w \in DOMAIN wfail : wfail[w]
              /\ i = Len(trace)

\* a first directory was removed and a second one, inside the pattern but
\* not normalized, made the call raise
C1_Witness ==
    /\ Happened("rmtree")
    /\ raised = "needs to be absolute and normalized!"
    /\ trace[Len(trace)].ev = "debug: On"
    /\ pattern_to_match(job, trace[Len(trace)].arg[1])
    /\ isabs(trace[Len(trace)].arg[1])

\* C2: with dry_run no removal primitive is invoked during a run and the
\* filesystem stays as it was.
C2_DryRunRemovesNothing ==
    settings.dry_run => (NoRemoval /\ fs = fs0)

\* C3: every removal primitive invoked was preceded by a passed guard
\* check of the very path it removes.
C3_EveryRemovalGuarded ==
    \A i \in DOMAIN trace :
        trace[i].ev \in RemovalEvents
        => \E k \in 1..(i - 1) : trace[k] = Event("guard_ok", trace[i].arg)

\* C4: a truncated listing makes _s3_check raise before the metadata
\* directory is listed, and the run removes nothing.
C4_TruncatedListingRemovesNothing ==
    (job = "source" /\ s3_response.IsTruncated)
    => /\ pc \in {"s3_check", "aborted"}
       /\ pc = "aborted" => raised = "Unexpected number of objects"
       /\ ~Happened("os.listdir")
       /\ NoRemoval
       /\ fs = fs0

\* the check has raised on a truncated listing of a run that would have
\* listed the metadata directory
C4_Witness ==
    /\ job = "source"
    /\ s3_response.IsTruncated
    /\ pc = "aborted"
    /\ settings.metadata_dir # None
    /\ settings.modalities_to_delete = None

\* the names of the folders the bucket holds under the prefix
RemoteFolderNames ==
    IF s3_response.CommonPrefixes = None THEN {}
    ELSE {n \in {"ecephys", "behavior", "derivatives", "original_metadata"} :
             CommonPrefix(n) \in s3_response.CommonPrefixes[1]}

\* the names of the directories the settings configure
ConfiguredNames ==
    {settings.modality_sources[i][1] :
        i \in 1..Len(settings.modality_sources)}
    \cup (IF settings.derivatives_dir # None THEN {"derivatives"} ELSE {})

UsableListing ==
    /\ job = "source"
    /\ ~s3_response.IsTruncated
    /\ s3_response.Contents # None
    /\ s3_response.CommonPrefixes # None

\* C5: when a configured modality directory or the configured derivatives
\* directory is absent from the remote folders, the run ends in an error
\* and removes nothing.
C5_MissingRemoteDirRemovesNothing ==
    (UsableListing /\ ConfiguredNames \ RemoteFolderNames # {})
    => (NoRemoval /\ fs = fs0 /\ pc # "done")

\* C6: every modality source and derivatives directory that run_job
\* removes has its name among the remote folders.
C6_RemovedDirsAreRemote ==
    job = "source" =>
    \A i \in DOMAIN trace :
        trace[i].ev = "rmtree"
        => /\ \A k \in 1..Len(settings.modality_sources) :
                  trace[i].arg =
                      rstrip(as_posix(settings.modality_sources[k][2]))
                  => settings.modality_sources[k][1] \in RemoteFolderNames
           /\ trace[i].arg = settings.derivatives_dir
              => "derivatives" \in RemoteFolderNames

\* the check has returned
CheckPassed ==
    job = "source"
    /\ pc \in {"scan", "prune", "rmtop", "derivatives", "metadata", "done"}

\* the *.json names that were in metadata_dir when the run began
LocalJson ==
    IF settings.metadata_dir = None THEN {}
    ELSE {n \in {"a.json", "b.json"} :
             Append(FsPath(settings.metadata_dir), n) \in fs0}

\* ... and those of them that are objects directly under the prefix
MirroredJson == {n \in LocalJson : Key(n) \in s3_response.Contents[1]}

\* the os.remove calls are all on mirrored files of metadata_dir
OnlyMirroredRemoved ==
    \A i \in DOMAIN trace :
        trace[i].ev = "os.remove"
        => \E n \in MirroredJson :
               trace[i].arg = JoinPath(settings.metadata_dir, n)

C8_LocalOnlyJsonRaises ==
    (/\ UsableListing
     /\ ListsMetadata(settings)
     /\ LocalJson \ MirroredJson # {}
     /\ ConfiguredNames \subseteq RemoteFolderNames)
    => pc \in {"s3_check", "aborted"}

StageWanted ==
    /\ job = "source"
    /\ settings.metadata_dir # None
    /\ settings.modalities_to_delete = None

MdNode == Resolve(FsPath(settings.metadata_dir))

ConfirmedNodes == {Append(MdNode, n) : n \in metadata_files_in_both_places}

RECURSIVE Flatten(_)
Flatten(ss) == IF ss = <<>> THEN <<>> ELSE Head(ss) \o Flatten(Tail(ss))

\* the real directories k levels below a root: no symbolic link and no
\* file on the way, nor in the last place
RealDirsAtLevel(files, root, k) ==
    {q \in files :
        /\ IsPrefix(root, q)
        /\ Len(q) = Len(root) + k
        /\ \A m \in (Len(root) + 1)..Len(q) : Kind(SubSeq(q, 1, m)) = "dir"}

\* a tree whose branches of real directories all end at level D
UniformDepth(files, root, D) ==
    /\ RealDirsAtLevel(files, root, D) # {}
    /\ RealDirsAtLevel(files, root, D + 1) = {}
    /\ \A k \in 0..(D - 1) :
           \A q \in RealDirsAtLevel(files, root, k) :
               \E c \in RealDirsAtLevel(files, root, k + 1) : IsPrefix(q, c)

Scanned == pc = "prune" /\ Len(folders_to_remove) = 1

\* C10 as stated: on a tree of uniform depth D > d the scanner returns
\* exactly the directories at level d below the root.
C10_ScannerReturnsLevelD ==
    (/\ Scanned
     /\ \E D \in (settings.num_of_dir_levels + 1)..(MaxScanLevels + 2) :
            UniformDepth(fs, FsPath(folders_to_remove[1]), D))
    => SeqToSet(Flatten(parts)) =
           {Str(q) : q \in RealDirsAtLevel(fs, FsPath(folders_to_remove[1]),
                                           settings.num_of_dir_levels)}

\* C10 amended: on every tree the scanner returns, once each, exactly the
\* real directories at level d + 1 below the root that are reached
\* through real directories only.
C10_ScannerReturnsLevelDPlusOne ==
    Scanned
    => /\ SeqToSet(Flatten(parts)) =
              {Str(q) : q \in RealDirsAtLevel(fs, FsPath(folders_to_remove[1]),
                                              settings.num_of_dir_levels + 1)}
       /\ Len(Flatten(parts)) = Cardinality(SeqToSet(Flatten(parts)))

\* a scan of depth 1 has returned two directories and left out a
\* symbolic link that lies beside them
C10_Witness ==
    /\ Scanned
    /\ settings.num_of_dir_levels = 1
    /\ Len(Flatten(parts)) = 2
    /\ S \o <<"ec", "a", "l">> \in fs
    /\ S \o <<"ec", "l">> \in fs

\* the scanned folder and what the scan returned
ScannedFolder == FsPath(folders_to_remove[1])
Candidates == SeqToSet(Flatten(parts))

\* the entries of a directory that are directories, not links nor files
RealSubDirs(files, node) ==
    {Append(node, n) : n \in {m \in SeqToSet(NameOrder) :
                                 /\ Append(node, m) \in files
                                 /\ Kind(Append(node, m)) = "dir"}}

\* C11 as stated: with depth 0 the scanner returns the root directory
\* itself as its only candidate.
C11_DepthZeroReturnsRoot ==
    (Scanned /\ settings.num_of_dir_levels = 0)
    => Flatten(parts) = <<folders_to_remove[1]>>

\* C11 amended: with depth 0 the scanner returns the immediate real
\* sub-directories of the root, and never the root itself.
C11_DepthZeroReturnsChildren ==
    (Scanned /\ settings.num_of_dir_levels = 0)
    => /\ Candidates = {Str(q) : q \in RealSubDirs(fs, ScannedFolder)}
       /\ folders_to_remove[1] \notin Candidates

\* a scan of depth 0 has returned the two sub-directories of a root that
\* also holds a file and a symbolic link
C11_Witness ==
    /\ Scanned
    /\ settings.num_of_dir_levels = 0
    /\ Flatten(parts) = <<Str(ScanRoot \o <<"a">>), Str(ScanRoot \o <<"b">>)>>
    /\ ScanRoot \o <<"f.txt">> \in fs
    /\ ScanRoot \o <<"l">> \in fs

\* the tree root/{a/{x,y}, b/{x}} below the scanned folder
TwoLevelTree ==
    {S, ScanRoot, O, O \o <<"k">>}
    \cup {ScanRoot \o <<"a">>, ScanRoot \o <<"a", "x">>,
          ScanRoot \o <<"a", "y">>, ScanRoot \o <<"b">>,
          ScanRoot \o <<"b", "x">>}

\* C12: with num_of_dir_levels = 1 the scanner returns exactly the
\* directories two path components below the scanned folder, not its
\* direct children; for the tree root/{a/{x,y}, b/{x}} these are
\* root/a/x, root/a/y and root/b/x.
C12_DepthOneReturnsGrandchildren ==
    (Scanned /\ settings.num_of_dir_levels = 1)
    => /\ Candidates =
              UNION {{Str(q) : q \in RealSubDirs(fs, c)} :
                        c \in RealSubDirs(fs, ScannedFolder)}
       /\ \A c \in RealSubDirs(fs, ScannedFolder) : Str(c) \notin Candidates
       /\ fs = TwoLevelTree
          => Candidates = {Str(ScanRoot \o <<"a", "x">>),
                           Str(ScanRoot \o <<"a", "y">>),
                           Str(ScanRoot \o <<"b", "x">>)}

\* the tree root/{a/{x,y}, b/{x}} has been scanned with depth 1
C12_Witness ==
    /\ Scanned
    /\ settings.num_of_dir_levels = 1
    /\ fs = TwoLevelTree
    /\ Len(Flatten(parts)) = 3

\* C14: every candidate is a directory on disk below the scanned folder,
\* and neither it nor any directory between the folder and it is a
\* symbolic link.
C14_CandidatesAreRealDirs ==
    Scanned
    => \A c \in Candidates :
           /\ FsPath(c) \in fs
           /\ IsPrefix(ScannedFolder, FsPath(c))
           /\ Len(FsPath(c)) > Len(ScannedFolder)
           /\ \A m \in (Len(ScannedFolder) + 1)..Len(FsPath(c)) :
                  Kind(SubSeq(FsPath(c), 1, m)) = "dir"

\* a scan of depth 1 has returned three directories of a tree that holds
\* a link to a directory at the first level and another at the second
C14_Witness ==
    /\ Scanned
    /\ settings.num_of_dir_levels = 1
    /\ Len(Flatten(parts)) = 3
    /\ {ScanRoot \o <<"l">>, ScanRoot \o <<"a", "l">>, O \o <<"k">>}
           \subseteq fs

\* C13: when run_job has completed without error and without dry_run,
\* no processed top-level directory exists any more, nor anything that
\* was below it.
C13_CompletedRunRemovesTopLevel ==
    (pc = "done" /\ ~settings.dry_run)
    => \A i \in DOMAIN folders_to_remove :
           /\ ~exists(fs, FsPath(as_posix(folders_to_remove[i])))
           /\ \A q \in fs :
                  ~IsPrefix(FsPath(as_posix(folders_to_remove[i])), q)

\* a run of depth 1 is over and has removed a top-level directory that
\* held a plain file, a symbolic link and a branch without directories
\* at the scan depth; what the link points at is still there
C13_Witness ==
    /\ pc = "done"
    /\ ~settings.dry_run
    /\ settings.num_of_dir_levels = 1
    /\ folders_to_remove # <<>>
    /\ folders_to_remove[1] = Str(S \o <<"ec">>)
    /\ {S \o <<"ec", "f.txt">>, S \o <<"ec", "l">>,
        S \o <<"ec", "md", "a.json">>} \subseteq fs0
    /\ S \o <<"ec">> \notin fs
    /\ O \o <<"k">> \in fs

\* _dask_task_to_process_directory_list on a whole list, as the single
\* task of a bag of one partition runs it: the disk it leaves and the
\* directories it has called rmtree on, up to the first call that raises
RECURSIVE process_directory_list(_, _, _, _)
process_directory_list(j, dry_run, files, directories) ==
    IF directories = <<>> THEN [files |-> files, removed |-> {}]
    ELSE LET r == remove_directory(j, dry_run, files, Head(directories))
             rest == process_directory_list(j, dry_run, r.files,
                                            Tail(directories))
             now == IF \E i \in DOMAIN r.events : r.events[i].ev = "rmtree"
                    THEN {Head(directories)} ELSE {}
         IN IF r.raised # "" THEN [files |-> r.files, removed |-> now]
            ELSE [files |-> rest.files, removed |-> now \cup rest.removed]

\* the directories rmtree was called on
RemovedDirs == {trace[i].arg : i \in {k \in DOMAIN trace :
                                         trace[k].ev = "rmtree"}}

\* _remove_subdirectories of the staging job is over
FanOutOver ==
    /\ job = "staging"
    /\ parts # <<>>
    /\ \/ pc = "rmtop"
       \/ pc = "aborted" /\ \E w \in DOMAIN parts : wfail[w]

\* C15: for a candidate list, the directories removed by
\* _remove_subdirectories and the disk it leaves are those of the run
\* with one partition, whatever n_partitions and the interleaving.
C15_PartitionCountInvariant ==
    FanOutOver
    => LET one == process_directory_list(job, settings.dry_run, fs0,
                                         Flatten(parts))
       IN fs = one.files /\ RemovedDirs = one.removed

\* C20: once a boundary violation has been raised in a partition, no
\* removal is performed any more, in any partition.
C20_NoRemovalAfterViolation ==
    [][(pc = "prune" /\ raised \in GuardErrors)
       => (fs' = fs /\ RemovedDirs' = RemovedDirs)]_vars

\* the places of the candidates in the partitions
Places == UNION {{<<w, k>> : k \in DOMAIN parts[w]} : w \in DOMAIN parts}

\* the events of the fan-out under way: those after the last scan
FanOutEvents ==
    {i \in DOMAIN trace :
        \E s \in DOMAIN trace :
            /\ s < i
            /\ trace[s].ev = "iterdir"
            /\ \A m \in (s + 1)..Len(trace) : trace[m].ev # "iterdir"}

\* no candidate is at two places, and no candidate's directory lies in
\* another's
CandidatesApart ==
    \A p1 \in Places, p2 \in Places :
        p1 # p2
        => LET c1 == parts[p1[1]][p1[2]]
               c2 == parts[p2[1]][p2[2]]
           IN /\ c1 # c2
              /\ ~IsPrefix(Resolve(FsPath(c1)), Resolve(FsPath(c2)))

\* no directory is handed to rmtree twice, and the workers of a fan-out
\* remove no directory that lies in a subtree another call removes
RemovedOnce ==
    /\ \A i \in DOMAIN trace, k \in DOMAIN trace :
           (i # k /\ trace[i].ev = "rmtree" /\ trace[k].ev = "rmtree")
           => trace[i].arg # trace[k].arg
    /\ \A i \in FanOutEvents, k \in FanOutEvents :
           (i # k /\ trace[i].ev = "rmtree" /\ trace[k].ev = "rmtree")
           => ~IsPrefix(Resolve(FsPath(trace[i].arg)),
                        Resolve(FsPath(trace[k].arg)))

\* C16: the partitions of a fan-out hold every candidate the scanner
\* returned, each exactly once and in the scanner's order; no candidate
\* lies inside another; and no directory is removed, or lies in a
\* subtree removed, by more than one worker.
C16_PartitionsDisjointAndCovering ==
    /\ [](pc = "prune" => (CandidatesApart /\ RemovedOnce))
    /\ [][(pc = "scan" /\ pc' = "prune")
          => Flatten(parts') =
                 get_list_of_sub_directories(
                     fs, folders_to_remove[folder_idx],
                     settings.num_of_dir_levels).dirs]_vars

\* three candidates are in two partitions and each of the two workers
\* has removed a directory
C16_Witness ==
    /\ pc = "prune"
    /\ ~settings.dry_run
    /\ Len(parts) = 2
    /\ Len(parts[1]) = 2
    /\ Len(parts[2]) = 1
    /\ wpos[1] > 1
    /\ wpos[2] > 1
    /\ Cardinality(RemovedDirs) >= 2

\* the events of the fan-out under way that equal ev
EventsOf(ev) == {i \in FanOutEvents : trace[i] = ev}

\* the progress entry of the k-th candidate of partition w
OnEntry(w, k) ==
    Event("debug: On", <<parts[w][k], k, Len(parts[w])>>)

\* C17: within a partition of M candidates the loop takes the
\* candidates in list order, one at a time: the k-th is logged as
\* 'On k of M' once, when the k - 1 before it are through, its removal
\* comes after its entry, and the entry of a later candidate comes after
\* everything about an earlier one.
C17_PartitionInListOrder ==
    pc = "prune"
    => /\ \A w \in DOMAIN parts : \A k \in 1..Len(parts[w]) :
              /\ Cardinality(EventsOf(OnEntry(w, k))) =
                     IF k < wpos[w] \/ (k = wpos[w] /\ wfail[w])
                     THEN 1 ELSE 0
              /\ Cardinality(EventsOf(Event("rmtree", parts[w][k]))) <= 1
              /\ \A r \in EventsOf(Event("rmtree", parts[w][k])) :
                     \E o \in EventsOf(OnEntry(w, k)) : o < r
              /\ \A k2 \in (k + 1)..Len(parts[w]) :
                     \A o2 \in EventsOf(OnEntry(w, k2)) :
                         \A e \in EventsOf(OnEntry(w, k))
                                   \cup EventsOf(Event("rmtree", parts[w][k])) :
                             e < o2
       /\ \A i \in FanOutEvents :
              trace[i].ev = "debug: On"
              => \E pl \in Places : trace[i] = OnEntry(pl[1], pl[2])

\* a partition of two candidates is through: both were logged and
\* removed, the first before the second
C17_Witness ==
    /\ pc = "prune"
    /\ ~settings.dry_run
    /\ \E w \in DOMAIN parts :
           /\ Len(parts[w]) = 2
           /\ wpos[w] = 3
           /\ \E r1 \in EventsOf(Event("rmtree", parts[w][1])),
                 r2 \in EventsOf(Event("rmtree", parts[w][2])) : r1 < r2

\* the strings run_job hands to _remove_directory as top-level folders
TopLevels ==
    {rstrip(as_posix(folders_to_remove[i])) : i \in DOMAIN folders_to_remove}

\* C18: the top-level directory is removed only when every partition of
\* its fan-out has finished: no worker is under way when the removal
\* starts, none acts while it runs, and no candidate of a top-level
\* directory is taken up after that directory's rmtree.
C18_TopLevelAfterFanOut ==
    /\ [](pc = "rmtop" => \A w \in DOMAIN parts : TaskDone(w))
    /\ [][pc = "rmtop" => (wpos' = wpos /\ wfail' = wfail)]_vars
    /\ [](\A i \in DOMAIN trace, k \in DOMAIN trace :
             (/\ trace[i].ev = "rmtree"
              /\ trace[i].arg \in TopLevels
              /\ trace[k].ev = "debug: On"
              /\ IsPrefix(FsPath(trace[i].arg), FsPath(trace[k].arg[1])))
             => k < i)

\* two workers have each removed a candidate and the top-level
\* directory was removed after them
C18_Witness ==
    /\ trace # <<>>
    /\ trace[Len(trace)].ev = "rmtree"
    /\ trace[Len(trace)].arg \in TopLevels
    /\ Len(parts) = 2
    /\ \A w \in DOMAIN parts : TaskDone(w) /\ parts[w] # <<>>
    /\ Cardinality(RemovedDirs) >= 3

\* C19: when a candidate makes _remove_directory raise, its partition
\* stops there and the job ends in the error: no later candidate of the
\* partition is logged or removed, the partition never moves again, the
\* top-level directory of the fan-out is not removed, and no later
\* fan-out or stage runs.
C19_FailureEndsPartitionAndJob ==
    /\ [](\A w \in DOMAIN wfail :
             wfail[w]
             => /\ pc \in {"prune", "aborted"}
                /\ raised # ""
                /\ \A k \in (wpos[w] + 1)..Len(parts[w]) :
                       /\ EventsOf(OnEntry(w, k)) = {}
                       /\ EventsOf(Event("rmtree", parts[w][k])) = {}
                /\ \A i \in FanOutEvents :
                       trace[i].ev \in RemovalEvents
                       => trace[i].arg \in Candidates)
    /\ [][\A w \in DOMAIN wfail :
              wfail[w]
              => /\ parts' = parts
                 /\ folder_idx' = folder_idx
                 /\ wfail'[w]
                 /\ wpos'[w] = wpos[w]]_vars

\* the first candidate of a partition was rejected by the guard, the
\* run has ended in that error, and the second candidate, which the
\* guard would accept, is still on disk
C19_Witness ==
    /\ pc = "aborted"
    /\ raised = "is not under parent folder!"
    /\ ~settings.dry_run
    /\ parts = << <<Str(P \o <<"tmp", "k">>), Str(T)>> >>
    /\ wfail[1]
    /\ wpos[1] = 1
    /\ T \in fs

\* the directory the only task of a call is about to take up, if any
Current == IF wpos[1] <= Len(parts[1]) THEN parts[1][wpos[1]] ELSE <<"">>

\* C21: a call on a directory that passes the guard and is not on disk
\* logs the warning, raises nothing, invokes no removal primitive and
\* leaves the disk as it is, and the loop moves on to the next candidate.
C21_MissingDirectoryIsAWarning ==
    [][(/\ pc = "prune"
        /\ ~wfail[1]
        /\ wpos[1] <= Len(parts[1])
        /\ Authorized(job, Current)
        /\ ~exists(fs, FsPath(Current)))
       => /\ trace' = trace
                      \o <<Event("debug: On", <<Current, wpos[1], Len(parts[1])>>),
                           Event("guard_ok", Current),
                           Event("warning: does not exist!", Current)>>
          /\ fs' = fs
          /\ raised' = raised
          /\ ~wfail'[1]
          /\ wpos'[1] = wpos[1] + 1]_vars

\* the first candidate was not on disk and got a warning, the second
\* one was removed
C21_Witness ==
    /\ pc = "prune"
    /\ Len(parts[1]) = 2
    /\ wpos[1] = 3
    /\ raised = ""
    /\ Len(trace) >= 4
    /\ trace[3].ev = "warning: does not exist!"
    /\ trace[Len(trace)] = Event("rmtree", Str(T \o <<"b">>))
    /\ T \o <<"b">> \notin fs

\* C26: the guard comes before the existence test and the dry-run
\* branch: a directory that is not absolute, not normalized or outside
\* the pattern makes the call raise, with dry_run and without, on disk
\* or not; the warning and the dry-run line are only logged for
\* directories that passed the guard.
C26_GuardComesFirst ==
    [][(/\ pc = "prune"
        /\ ~wfail[1]
        /\ wpos[1] <= Len(parts[1])
        /\ ~Authorized(job, Current))
       => /\ wfail'[1]
          /\ raised' \in GuardErrors
          /\ fs' = fs
          /\ trace' = trace
                      \o <<Event("debug: On", <<Current, wpos[1], Len(parts[1])>>)>>]_vars

\* a dry run was asked to remove a directory that is outside the
\* pattern and not on disk, and the call raised
C26_Witness ==
    /\ settings.dry_run
    /\ fs = {}
    /\ wfail[1]
    /\ raised = "is not under parent folder!"
    /\ trace[Len(trace)].ev = "debug: On"
    /\ trace[Len(trace)].arg[1] = Str(O)

\* the top-level directory the run is about to scan
ScanFolder == folders_to_remove[folder_idx]

\* C22: a top-level directory that is not on disk when its scan starts
\* gets a warning and no error, and the run goes on with the directories
\* and stages that are left.
C22_MissingTopLevelIsAWarning ==
    [][(pc = "scan" /\ ~exists(fs, FsPath(ScanFolder)))
       => (pc' \notin {"aborted"} /\ raised' = "")]_vars

\* the run is one of those started again on the disk an earlier run of
\* the same settings left
Restarted ==
    /\ \E k \in 0..Len(RemovalOrder) : fs0 = Interrupted(k)
    /\ ~settings.dry_run
    /\ \/ /\ job = "source"
          /\ settings.modality_sources = BothSources
          /\ settings.metadata_dir = Str(S \o <<"md">>)
          /\ settings.derivatives_dir = Str(S \o <<"der">>)
          /\ settings.modalities_to_delete = None
          /\ s3_response = FullResponse
       \/ /\ job = "folders"
          /\ settings.directories =
                 <<Str(S \o <<"ec">>), Str(S \o <<"beh">>)>>

\* the disk one uninterrupted run of these settings ends on
UninterruptedFinal ==
    IF job = "source"
    THEN Interrupted(Len(RemovalOrder)) \ {S \o <<"md">>}
    ELSE Interrupted(FoldersSteps)

\* C23: a job started again with the same settings, after a run that
\* was stopped at any point, completes without error and ends on the
\* disk one uninterrupted run ends on.
C23_RerunEndsAsOneRun ==
    Restarted => /\ pc # "aborted"
                 /\ pc = "done" => fs = UninterruptedFinal

\* the steps from one stage of DeleteSourceFoldersJob.run_job to the next
StageSteps ==
    {<<"s3_check", "scan">>, <<"s3_check", "derivatives">>,
     <<"scan", "prune">>, <<"prune", "prune">>, <<"prune", "rmtop">>,
     <<"rmtop", "scan">>, <<"rmtop", "derivatives">>,
     <<"derivatives", "metadata">>, <<"metadata", "done">>}
    \cup {<<stage, "aborted">> :
              stage \in {"s3_check", "scan", "prune", "rmtop", "derivatives",
                         "metadata"}}

CheckEvents == {"os.listdir", "warning: files not found in S3!"}

MetadataEvents ==
    {"os.remove", "warning: extra files or folders", "os.rmdir"}

\* the scans so far, up to the i-th event
ScansUpTo(i) == Cardinality({j \in 1..i : trace[j].ev = "iterdir"})

\* C24: DeleteSourceFoldersJob.run_job goes through its stages in one
\* order: the remote check is over before any scan or removal; then each
\* selected modality directory in turn is scanned, pruned and removed;
\* then the derivatives directory; the metadata files and directory come
\* last, after every other removal.
C24_StagesInOrder ==
    /\ [](job = "source"
          => /\ pc = "s3_check" => trace = <<>>
             /\ \A i \in DOMAIN trace : \A j \in DOMAIN trace :
                    i < j
                    => /\ trace[j].ev \in CheckEvents
                          => trace[i].ev \in CheckEvents
                       /\ trace[i].ev \in MetadataEvents
                          => trace[j].ev \in MetadataEvents
                       /\ (/\ trace[i].ev = "guard_ok"
                           /\ trace[i].arg = settings.derivatives_dir)
                          => /\ trace[j].ev \notin {"iterdir", "debug: On"}
                             /\ trace[j].ev \in {"guard_ok", "rmtree"}
                                => trace[j].arg = settings.derivatives_dir
             /\ \A i \in DOMAIN trace :
                    trace[i].ev = "iterdir"
                    => /\ ScansUpTo(i) <= Len(folders_to_remove)
                       /\ trace[i].arg =
                              as_posix(folders_to_remove[ScansUpTo(i)])
                       /\ ScansUpTo(i) > 1
                          => /\ trace[i - 1].ev \in {"rmtree", "info: (DRYRUN)"}
                             /\ trace[i - 1].arg =
                                    rstrip(as_posix(
                                        folders_to_remove[ScansUpTo(i) - 1])))
    /\ [][job = "source" => <<pc, pc'>> \in StageSteps]_vars

\* a run over two modality directories, the derivatives directory and
\* the metadata directory has removed them all
C24_Witness ==
    /\ job = "source"
    /\ pc = "done"
    /\ Len(folders_to_remove) = 2
    /\ \E i \in DOMAIN trace :
          trace[i] = Event("rmtree", rstrip(as_posix(folders_to_remove[2])))
    /\ \E i \in DOMAIN trace :
          trace[i] = Event("rmtree", settings.derivatives_dir)
    /\ trace[Len(trace)] = Event("os.rmdir", settings.metadata_dir)

Filtered == job = "source" /\ settings.modalities_to_delete # None

\* what was on disk under the directory when the run began is still there
Untouched(directory) ==
    \A q \in fs0 : IsPrefix(FsPath(directory), q) => q \in fs

\* the directories modalities_to_delete selects
Selected ==
    {settings.modality_sources[i][2] :
        i \in {i \in DOMAIN settings.modality_sources :
                  settings.modality_sources[i][1]
                      \in settings.modalities_to_delete[1]}}
    \cup (IF /\ settings.derivatives_dir # None
             /\ "derivatives" \in settings.modalities_to_delete[1]
          THEN {settings.derivatives_dir} ELSE {})

MetadataStageSkipped ==
    \A i \in DOMAIN trace : trace[i].ev \notin CheckEvents \cup MetadataEvents

\* C25: with modalities_to_delete set, a run leaves alone every modality
\* source whose key is not in the list, the derivatives directory unless
\* "derivatives" is in the list, and the metadata directory and its
\* files, which it never lists, checks or removes.
C25_FilterLeavesTheRestUntouched ==
    Filtered
    => /\ \A i \in DOMAIN settings.modality_sources :
             settings.modality_sources[i][1]
                 \notin settings.modalities_to_delete[1]
             => Untouched(settings.modality_sources[i][2])
       /\ (/\ settings.derivatives_dir # None
           /\ "derivatives" \notin settings.modalities_to_delete[1])
          => Untouched(settings.derivatives_dir)
       /\ MetadataStageSkipped
       /\ settings.metadata_dir # None => Untouched(settings.metadata_dir)

\* C25, amended: with modalities_to_delete set, a run never lists or
\* checks the metadata directory, calls neither os.remove nor os.rmdir,
\* and takes nothing from the disk but what lies under a selected
\* directory: sources that are not selected, the derivatives directory
\* and the metadata directory stay as they were unless they lie inside a
\* selected directory.
C25_FilterRemovesOnlyUnderSelected ==
    Filtered
    => /\ MetadataStageSkipped
       /\ fs \subseteq fs0
       /\ \A q \in fs0 \ fs :
             \E d \in Selected : IsPrefix(FsPath(d), q)

\* a run filtered on ecephys has removed that source, and the behavior
\* source, the derivatives and the metadata files are where they were
C25_Witness ==
    /\ Filtered
    /\ pc = "done"
    /\ settings.modalities_to_delete = Some({"ecephys"})
    /\ settings.metadata_dir = Str(S \o <<"md">>)
    /\ settings.derivatives_dir # None
    /\ Len(settings.modality_sources) = 2
    /\ S \o <<"ec">> \notin fs
    /\ {S \o <<"beh", "a">>, S \o <<"der", "a">>, S \o <<"md", "a.json">>}
           \subseteq fs

\* two keys of modality_sources name one directory
Aliased ==
    /\ job = "source"
    /\ \E i \in DOMAIN settings.modality_sources :
          \E j \in DOMAIN settings.modality_sources :
             /\ i # j
             /\ settings.modality_sources[i][2] = settings.modality_sources[j][2]

\* C27: settings in which two modality keys name the same directory are
\* rejected before anything is deleted: the run never gets past its
\* start, scans nothing and removes nothing.
C27_AliasedSourcesRejected ==
    Aliased => /\ pc \in {"s3_check", "aborted"}
               /\ ~Happened("iterdir")
               /\ NoRemoval

\* the directories run_job removes before the metadata stage
RemovedBefore ==
    {settings.modality_sources[i][2] : i \in DOMAIN settings.modality_sources}
    \cup (IF settings.derivatives_dir = None THEN {}
          ELSE {settings.derivatives_dir})

\* C28: when metadata_dir lies inside a modality source or the
\* derivatives directory that the run has removed, the metadata stage
\* still completes without error.
C28_NestedMetadataStageCompletes ==
    [][(/\ pc = "metadata"
        /\ StageWanted
        /\ \E d \in RemovedBefore :
              /\ IsPrefix(FsPath(d), FsPath(settings.metadata_dir))
              /\ ~exists(fs, FsPath(d)))
       => (pc' = "done" /\ raised' = "")]_vars

SourceKeys ==
    {settings.modality_sources[i][1] : i \in DOMAIN settings.modality_sources}

\* the derivatives directory is configured and not among the remote
\* folders
DerivativesNotRemote ==
    settings.derivatives_dir # None /\ "derivatives" \notin RemoteFolderNames

\* C29: the check requires the key of every entry of modality_sources
\* among the remote folders, with a filter or without: a modality the
\* filter leaves out still ends the run when it is absent remotely; the
\* derivatives directory is required remotely only when no filter is set.
C29_EveryKeyRequiredRemotely ==
    [][(pc = "s3_check" /\ UsableListing)
       => /\ ~(SourceKeys \subseteq RemoteFolderNames)
             => (pc' = "aborted" /\ raised' = "directories not found in S3!")
          /\ (SourceKeys \subseteq RemoteFolderNames)
             => IF settings.modalities_to_delete = None
                THEN DerivativesNotRemote
                     <=> (pc' = "aborted"
                          /\ raised' = "directories not found in S3!")
                ELSE pc' # "aborted"]_vars

\* a run filtered on ecephys has ended in the error of the check because
\* the behavior folder is not in the bucket
C29_Witness ==
    /\ UsableListing
    /\ pc = "aborted"
    /\ raised = "directories not found in S3!"
    /\ settings.modalities_to_delete = Some({"ecephys"})
    /\ "ecephys" \in RemoteFolderNames
    /\ "behavior" \in SourceKeys \ RemoteFolderNames
    /\ fs = fs0

\* the targets of the run, in the order run_job takes them
Targets ==
    [i \in DOMAIN folders_to_remove |->
        rstrip(as_posix(folders_to_remove[i]))]
    \o (IF /\ job = "source"
           /\ settings.derivatives_dir # None
           /\ \/ settings.modalities_to_delete = None
              \/ "derivatives" \in settings.modalities_to_delete[1]
        THEN <<settings.derivatives_dir>> ELSE <<>>)
    \o (IF StageWanted THEN <<settings.metadata_dir>> ELSE <<>>)

\* the run has scanned its current top-level folder and has not removed
\* it
InLoop ==
    /\ ScansUpTo(Len(trace)) = folder_idx
    /\ \A i \in DOMAIN trace :
          (trace[i] = Event("rmtree", Targets[folder_idx]))
          => \E j \in (i + 1)..Len(trace) : trace[j].ev = "iterdir"

\* the place in Targets of the target an ended run was at
TargetAt ==
    IF InLoop THEN folder_idx
    ELSE IF /\ settings.derivatives_dir \in SeqToSet(Targets)
            /\ ~\E i \in DOMAIN trace :
                  trace[i] = Event("guard_ok", settings.derivatives_dir)
    THEN Len(folders_to_remove) + 1
    ELSE Len(Targets)

\* a run that removes has ended with an error after it took up a target
EndedOnTarget ==
    /\ pc = "aborted"
    /\ ~settings.dry_run
    /\ job \in {"folders", "source"}
    /\ folders_to_remove # <<>>

\* a guard error comes from the target the run is at: from its own path
\* or from one of the candidates of its scan
GuardErrorIsOfTarget ==
    raised \in GuardErrors
    => /\ InLoop
       /\ \/ ~Authorized(job, Targets[TargetAt])
          \/ \E i \in FanOutEvents :
                /\ trace[i].ev = "debug: On"
                /\ ~Authorized(job, trace[i].arg[1])

\* C30: the targets are taken one after the other and the path of a
\* target goes through the guard only when its removal is attempted: an
\* error on target k leaves the targets before k removed and the targets
\* after k untouched.
C30_ErrorSplitsTargets ==
    EndedOnTarget
    => /\ GuardErrorIsOfTarget
       /\ \A i \in 1..(TargetAt - 1) : ~exists(fs, FsPath(Targets[i]))
       /\ \A i \in (TargetAt + 1)..Len(Targets) : Untouched(Targets[i])

\* C30, amended: an error on target k leaves the targets before k
\* removed, and of the targets after k it leaves in place everything
\* that does not lie under target k or a target before it.
C30_ErrorSplitsTargetsApart ==
    EndedOnTarget
    => /\ GuardErrorIsOfTarget
       /\ \A i \in 1..(TargetAt - 1) : ~exists(fs, FsPath(Targets[i]))
       /\ \A i \in (TargetAt + 1)..Len(Targets) :
             \A q \in fs0 :
                IsPrefix(FsPath(Targets[i]), q)
                => \/ q \in fs
                   \/ \E j \in 1..TargetAt : IsPrefix(FsPath(Targets[j]), q)

\* the first directory of the list is removed, the second one, outside
\* the pattern, has raised and is whole
C30_Witness ==
    /\ EndedOnTarget
    /\ job = "folders"
    /\ raised = "is not under parent folder!"
    /\ TargetAt = Len(Targets)
    /\ Targets = <<Str(S \o <<"ec">>), Str(O)>>
    /\ S \o <<"ec">> \notin fs
    /\ Untouched(Str(O))

====
